---------------------------- MODULE Spec2Model ----------------------------
(***************************************************************************)
(* A model of the go-promise package (src/main.go).                        *)
(*                                                                         *)
(* A program is a sequence of nodes.  Every node is one goroutine: the     *)
(* executor task of a promise built by New / Then / Catch / Finally, a     *)
(* caller blocked in Await, or a goroutine an executor started and handed  *)
(* its resolve / reject to.  The node's index is also the identity of the  *)
(* promise it owns.  Each goroutine advances one shared-memory access at a *)
(* time, so every interleaving of the unsynchronised reads and writes of   *)
(* Promise.state and of the channel operations is explored.                *)
(***************************************************************************)
EXTENDS Integers, Sequences, FiniteSets, TLC

(***************************************************************************)
(* Bounds of the explored programs.                                        *)
(***************************************************************************)
MaxVal == 2
MaxScript == 2
MaxChain == 2
MaxDepth == 2

(***************************************************************************)
(* Promise states (main.go:10-14).                                         *)
(***************************************************************************)
PENDING == 0
FULFILLED == 1
REJECTED == 2

(***************************************************************************)
(* Values.  Every Go value the model handles is a pair <<tag, n>>, so that *)
(* any two of them can be compared.                                        *)
(***************************************************************************)
Nil == <<"nil", 0>>
IntVal(k) == <<"int", k>>
PromiseVal(q) == <<"promise", q>>
ErrVal(k) == <<"err", k>>
None == <<"none", 0>>

\* what awaitRet holds while Await has not returned
NotReturned == <<None, None>>

IsPromise(v) == v[1] = "promise"

\* runtime errors raised by the Go runtime itself
TypeAssertionError == <<"runtimeErr", 1>>
PanicNilError == <<"runtimeErr", 2>>

\* the errors handlePanic builds with fmt.Errorf
PanicNilMsg == <<"panicNil", 0>>
PanicWithError(e) ==
    IF e[1] = "runtimeErr" THEN <<"panicRuntimeErr", e[2]>>
    ELSE <<"panicErr", e[2]>>
PanicWithUnknown(v) == <<"panicUnknown", v[2]>>

IsError(v) == v[1] \in {"err", "runtimeErr", "panicErr", "panicRuntimeErr",
                        "panicUnknown", "panicNil"}

(***************************************************************************)
(* Handlers.  A handler is a pair <<tag, n>>; applying it gives            *)
(* <<"ret", value>> when it returns and <<"panic", value>> when it panics. *)
(***************************************************************************)
\* an increment handler that returns its argument unchanged
ApplyFulfillIncReturnsData(h, v) ==
    CASE h[1] = "inc" ->
            IF v[1] = "int" THEN <<"ret", v>>
            ELSE <<"panic", TypeAssertionError>>
      [] h[1] = "retnil" -> <<"ret", Nil>>
      [] h[1] = "retpromise" -> <<"ret", PromiseVal(h[2])>>
      [] h[1] = "panicnil" -> <<"panic", Nil>>
      [] h[1] = "panicerr" -> <<"panic", ErrVal(h[2])>>
      [] OTHER -> <<"panic", IntVal(h[2])>>

\* func(data) interface{} { return data.(int) + 1 }        (main.go:190-193)
\* func(data) interface{} { return nil }                   (main.go:197-200)
ApplyFulfill(h, v) ==
    CASE h[1] = "inc" ->
            IF v[1] = "int" THEN <<"ret", IntVal(v[2] + 1)>>
            ELSE <<"panic", TypeAssertionError>>
      [] h[1] = "retnil" -> <<"ret", Nil>>
      [] h[1] = "retpromise" -> <<"ret", PromiseVal(h[2])>>
      [] h[1] = "panicnil" -> <<"panic", Nil>>
      [] h[1] = "panicerr" -> <<"panic", ErrVal(h[2])>>
      [] OTHER -> <<"panic", IntVal(h[2])>>

\* func(err error) error { return err }                    (main.go:194-196)
\* func(error error) error { ...; return nil }             (main.go:204-208)
ApplyReject(h, e) ==
    CASE h[1] = "pass" -> <<"ret", e>>
      [] h[1] = "retnil" -> <<"ret", Nil>>
      [] h[1] = "reterr" -> <<"ret", ErrVal(h[2])>>
      [] h[1] = "panicnil" -> <<"panic", Nil>>
      [] h[1] = "panicval" -> <<"panic", IntVal(h[2])>>
      [] OTHER -> <<"panic", ErrVal(h[2])>>

\* func() interface{} { ...; return nil }                  (main.go:209-212)
ApplyFinally(h) ==
    CASE h[1] = "ret" -> <<"ret", Nil>>
      [] OTHER -> <<"panic", ErrVal(h[2])>>

(***************************************************************************)
(* Nodes of a program.                                                     *)
(***************************************************************************)
Node(k, p, s, f, r, fin) ==
    [kind |-> k, parent |-> p, script |-> s,
     onFulfill |-> f, onReject |-> r, onFinally |-> fin]

\* New(executor): the executor is a straight-line script of calls
NewNode(s) == Node("new", 0, s, None, None, None)
ThenNode(p, f, r) == Node("then", p, << >>, f, r, None)
CatchNode(p, r) == Node("catch", p, << >>, None, r, None)
FinallyNode(p, fin) == Node("finally", p, << >>, None, None, fin)
AwaitNode(p) == Node("await", p, << >>, None, None, None)

\* Resolve(value) and Reject(err)
ResolveNode(v) == NewNode(<< <<"resolve", v>> >>)
RejectNode(e) == NewNode(<< <<"reject", e>> >>)

\* a goroutine the executor of promise p starts with the go statement and
\* hands its resolve / reject to: it makes the one call `call` on p
GoNode(p, call) == Node("go", p, <<call>>, None, None, None)

VARIABLES
    prog,            \* the program: a sequence of nodes (never changes)
    state,           \* Promise.state
    resolveChannel,  \* Promise.resolveChannel, capacity 1
    rejectChannel,   \* Promise.rejectChannel, capacity 1
    result,          \* Promise.result
    err,             \* Promise.err
    pc,              \* where each goroutine stands
    ip,              \* next call of a New executor's script
    arg,             \* the value a goroutine holds (argument, received item)
    cont,            \* where the running resolve/reject call returns to
    panicval,        \* the value of the panic unwinding a goroutine, or None
    sendLog,         \* history: every item sent on a promise's channels
    calls,           \* history: every handler invocation of a node
    got,             \* history: every item a node received from its parent
    awaitRet         \* history: what Await returned to an await node

promVars == <<state, resolveChannel, rejectChannel, result, err>>
taskVars == <<pc, ip, arg, cont, panicval>>
histVars == <<sendLog, calls, got, awaitRet>>
vars == <<prog, state, resolveChannel, rejectChannel, result, err,
          pc, ip, arg, cont, panicval, sendLog, calls, got, awaitRet>>

Nodes == DOMAIN prog
Promises == {n \in Nodes : prog[n].kind \notin {"await", "go"}}
Consumers(p) == {n \in Nodes : prog[n].parent = p /\ prog[n].kind # "go"}
\* the goroutines other than p's executor that settle p
Settlers(p) == {n \in Nodes : prog[n].parent = p /\ prog[n].kind = "go"}


(***************************************************************************)
(* Channel helpers.  Both channels are made with capacity 1                *)
(* (main.go:32-33): a send blocks while the slot is taken, a receive       *)
(* blocks while it is empty, and a select over both channels takes any     *)
(* one that is ready.                                                      *)
(***************************************************************************)
ChanCap == 1

ReadyItems(p) ==
    (IF Len(resolveChannel[p]) > 0
        THEN {<<"V", Head(resolveChannel[p])>>} ELSE {})
    \cup
    (IF Len(rejectChannel[p]) > 0
        THEN {<<"E", Head(rejectChannel[p])>>} ELSE {})

\* a receive that leaves the item in the channel
TakeKeepsItem(p, item) == UNCHANGED <<resolveChannel, rejectChannel>>

Take(p, item) ==
    /\ resolveChannel' = IF item[1] = "V"
                           THEN [resolveChannel EXCEPT ![p] = Tail(@)]
                           ELSE resolveChannel
    /\ rejectChannel' = IF item[1] = "E"
                          THEN [rejectChannel EXCEPT ![p] = Tail(@)]
                          ELSE rejectChannel

\* the promise whose resolve / reject callbacks goroutine n was handed
Target(n) == IF prog[n].kind = "go" THEN prog[n].parent ELSE n

\* Where goroutine n goes on when its resolve / reject call returns: to the
\* next call of the executor, to onFinally(), or to the end of the goroutine
\* (on a return without panic the deferred handlePanic recovers nil and does
\* nothing, main.go:48-49).
\* a Finally that forgets its callback
ContinueSkipsFinally(n) ==
    CASE cont[n] = "exec" ->
            IF ip[n] > Len(prog[n].script) THEN "done" ELSE "exec"
      [] OTHER -> "done"

Continue(n) ==
    CASE cont[n] = "exec" ->
            IF ip[n] > Len(prog[n].script) THEN "done" ELSE "exec"
      [] cont[n] = "finally" -> "call_finally"
      [] OTHER -> "done"

(***************************************************************************)
(* The executor of New: promise.executor(promise.resolve, promise.reject)  *)
(***************************************************************************)
ExecCall(n) ==
    /\ pc[n] = "exec"
    /\ ip[n] <= Len(prog[n].script)
    /\ prog[n].script[ip[n]][1] \in {"resolve", "reject"}
    /\ LET op == prog[n].script[ip[n]] IN
        /\ pc' = [pc EXCEPT ![n] = IF op[1] = "resolve" THEN "resolve_guard"
                                                         ELSE "reject_guard"]
        /\ arg' = [arg EXCEPT ![n] = op[2]]
        /\ cont' = [cont EXCEPT ![n] = "exec"]
        /\ ip' = [ip EXCEPT ![n] = @ + 1]
    /\ UNCHANGED <<prog, promVars, panicval, histVars>>

ExecPanic(n) ==
    /\ pc[n] = "exec"
    /\ ip[n] <= Len(prog[n].script)
    /\ prog[n].script[ip[n]][1] = "panic"
    /\ panicval' = [panicval EXCEPT ![n] = prog[n].script[ip[n]][2]]
    /\ pc' = [pc EXCEPT ![n] = "recover"]
    /\ UNCHANGED <<prog, promVars, ip, arg, cont, histVars>>

\* an executor whose return settles its promise with nil
ExecReturnResolves(n) ==
    /\ pc[n] = "exec"
    /\ ip[n] > Len(prog[n].script)
    /\ arg' = [arg EXCEPT ![n] = Nil]
    /\ cont' = [cont EXCEPT ![n] = "exit"]
    /\ pc' = [pc EXCEPT ![n] = "resolve_guard"]
    /\ UNCHANGED <<prog, promVars, ip, panicval, histVars>>

ExecReturn(n) ==
    /\ pc[n] = "exec"
    /\ ip[n] > Len(prog[n].script)
    /\ pc' = [pc EXCEPT ![n] = "done"]
    /\ UNCHANGED <<prog, promVars, ip, arg, cont, panicval, histVars>>

(***************************************************************************)
(* Promise.reject (main.go:69-76)                                          *)
(***************************************************************************)
\* a reject without the state != PENDING guard
RejectGuardAlwaysPasses(n) ==
    /\ pc[n] = "reject_guard"
    /\ pc' = [pc EXCEPT ![n] = "reject_state"]
    /\ UNCHANGED <<prog, promVars, ip, arg, cont, panicval, histVars>>

RejectGuard(n) ==
    /\ pc[n] = "reject_guard"
    /\ pc' = [pc EXCEPT ![n] = IF state[Target(n)] # PENDING
                                 THEN Continue(n)
                                 ELSE "reject_state"]
    /\ UNCHANGED <<prog, promVars, ip, arg, cont, panicval, histVars>>

RejectState(n) ==
    /\ pc[n] = "reject_state"
    /\ state' = [state EXCEPT ![Target(n)] = REJECTED]
    /\ pc' = [pc EXCEPT ![n] = "reject_send"]
    /\ UNCHANGED <<prog, resolveChannel, rejectChannel, result, err,
                   ip, arg, cont, panicval, histVars>>

\* a reject whose send gives up when the slot is taken
RejectSendGivesUp(n) ==
    /\ pc[n] = "reject_send"
    /\ IF Len(rejectChannel[Target(n)]) < ChanCap
         THEN /\ rejectChannel' =
                    [rejectChannel EXCEPT ![Target(n)] = Append(@, arg[n])]
              /\ sendLog' =
                    [sendLog EXCEPT ![Target(n)] = Append(@, <<"E", arg[n]>>)]
         ELSE UNCHANGED <<rejectChannel, sendLog>>
    /\ pc' = [pc EXCEPT ![n] = Continue(n)]
    /\ UNCHANGED <<prog, state, resolveChannel, result, err,
                   ip, arg, cont, panicval, calls, got, awaitRet>>

RejectSend(n) ==
    /\ pc[n] = "reject_send"
    /\ Len(rejectChannel[Target(n)]) < ChanCap
    /\ rejectChannel' = [rejectChannel EXCEPT ![Target(n)] = Append(@, arg[n])]
    /\ sendLog' = [sendLog EXCEPT ![Target(n)] = Append(@, <<"E", arg[n]>>)]
    /\ pc' = [pc EXCEPT ![n] = Continue(n)]
    /\ UNCHANGED <<prog, state, resolveChannel, result, err,
                   ip, arg, cont, panicval, calls, got, awaitRet>>

(***************************************************************************)
(* Promise.resolve (main.go:91-109)                                        *)
(***************************************************************************)
\* a resolve without the *Promise case: every value is sent as it is
SwitchTypeNoPromiseCase(v) == "default"

\* switch result := resolution.(type): the case taken
SwitchType(v) == IF v[1] = "promise" THEN "*Promise" ELSE "default"

\* a resolve that ignores the error of the inner Await
ErrNotNilIgnored(e) == FALSE

\* if err != nil, on the error the inner Await returned
ErrNotNil(e) == e # Nil

\* a resolve without the state != PENDING guard
ResolveGuardAlwaysPasses(n) ==
    /\ pc[n] = "resolve_guard"
    /\ pc' = [pc EXCEPT ![n] =
                IF SwitchType(arg[n]) = "*Promise" THEN "inner_select"
                ELSE "resolve_send"]
    /\ UNCHANGED <<prog, promVars, ip, arg, cont, panicval, histVars>>

ResolveGuard(n) ==
    /\ pc[n] = "resolve_guard"
    /\ pc' = [pc EXCEPT ![n] =
                IF state[Target(n)] # PENDING THEN Continue(n)
                ELSE IF SwitchType(arg[n]) = "*Promise" THEN "inner_select"
                ELSE "resolve_send"]
    /\ UNCHANGED <<prog, promVars, ip, arg, cont, panicval, histVars>>

\* flattenedResult, err := result.Await(): the select of the inner Await
InnerSelect(n) ==
    /\ pc[n] = "inner_select"
    /\ LET q == arg[n][2] IN
       \E item \in ReadyItems(q) :
          /\ Take(q, item)
          /\ result' = IF item[1] = "V" THEN [result EXCEPT ![q] = item[2]]
                                         ELSE result
          /\ err' = IF item[1] = "E" THEN [err EXCEPT ![q] = item[2]] ELSE err
    /\ pc' = [pc EXCEPT ![n] = "inner_ret"]
    /\ UNCHANGED <<prog, state, ip, arg, cont, panicval, histVars>>

\* the inner Await returns (result, err); resolve branches on err != nil
InnerReturn(n) ==
    /\ pc[n] = "inner_ret"
    /\ LET q == arg[n][2] IN
        IF ErrNotNil(err[q])
          THEN /\ arg' = [arg EXCEPT ![n] = err[q]]
               /\ pc' = [pc EXCEPT ![n] = "reject_guard"]
          ELSE /\ arg' = [arg EXCEPT ![n] = result[q]]
               /\ pc' = [pc EXCEPT ![n] = "resolve_send"]
    /\ UNCHANGED <<prog, promVars, ip, cont, panicval, histVars>>

ResolveSend(n) ==
    /\ pc[n] = "resolve_send"
    /\ Len(resolveChannel[Target(n)]) < ChanCap
    /\ resolveChannel' = [resolveChannel EXCEPT ![Target(n)] = Append(@, arg[n])]
    /\ sendLog' = [sendLog EXCEPT ![Target(n)] = Append(@, <<"V", arg[n]>>)]
    /\ pc' = [pc EXCEPT ![n] = "resolve_state"]
    /\ UNCHANGED <<prog, state, rejectChannel, result, err,
                   ip, arg, cont, panicval, calls, got, awaitRet>>

ResolveState(n) ==
    /\ pc[n] = "resolve_state"
    /\ state' = [state EXCEPT ![Target(n)] = FULFILLED]
    /\ pc' = [pc EXCEPT ![n] = Continue(n)]
    /\ UNCHANGED <<prog, resolveChannel, rejectChannel, result, err,
                   ip, arg, cont, panicval, histVars>>

(***************************************************************************)
(* Promise.Then (main.go:114-126)                                          *)
(***************************************************************************)
\* a Then that calls OnFulfill without waiting for its parent
ThenSelectNoWait(n) ==
    /\ pc[n] = "select"
    /\ prog[n].kind = "then"
    /\ pc' = [pc EXCEPT ![n] = "call_fulfill"]
    /\ UNCHANGED <<prog, promVars, ip, arg, cont, panicval, histVars>>

\* a Then that runs its fulfil branch whichever channel fired
ThenSelectOneBranch(n) ==
    /\ pc[n] = "select"
    /\ prog[n].kind = "then"
    /\ \E item \in ReadyItems(prog[n].parent) :
          /\ Take(prog[n].parent, item)
          /\ got' = [got EXCEPT ![n] = Append(@, item)]
          /\ arg' = [arg EXCEPT ![n] = item[2]]
          /\ pc' = [pc EXCEPT ![n] = "then_reset"]
    /\ UNCHANGED <<prog, state, result, err, ip, cont, panicval,
                   sendLog, calls, awaitRet>>

ThenSelect(n) ==
    /\ pc[n] = "select"
    /\ prog[n].kind = "then"
    /\ \E item \in ReadyItems(prog[n].parent) :
          /\ Take(prog[n].parent, item)
          /\ got' = [got EXCEPT ![n] = Append(@, item)]
          /\ arg' = [arg EXCEPT ![n] = item[2]]
          /\ pc' = [pc EXCEPT ![n] = IF item[1] = "V" THEN "then_reset"
                                                       ELSE "call_reject"]
    /\ UNCHANGED <<prog, state, result, err, ip, cont, panicval,
                   sendLog, calls, awaitRet>>

\* promise.resetState() (main.go:79-81, called at main.go:119)
ThenReset(n) ==
    /\ pc[n] = "then_reset"
    /\ state' = [state EXCEPT ![prog[n].parent] = PENDING]
    /\ pc' = [pc EXCEPT ![n] = "call_fulfill"]
    /\ UNCHANGED <<prog, resolveChannel, rejectChannel, result, err,
                   ip, arg, cont, panicval, histVars>>

\* resolve(OnFulfill(result)): the handler runs, then resolve is entered
CallFulfill(n) ==
    /\ pc[n] = "call_fulfill"
    /\ calls' = [calls EXCEPT ![n] = Append(@, <<"fulfill", arg[n]>>)]
    /\ LET r == ApplyFulfill(prog[n].onFulfill, arg[n]) IN
        IF r[1] = "ret"
          THEN /\ arg' = [arg EXCEPT ![n] = r[2]]
               /\ cont' = [cont EXCEPT ![n] = "exit"]
               /\ pc' = [pc EXCEPT ![n] = "resolve_guard"]
               /\ UNCHANGED panicval
          ELSE /\ panicval' = [panicval EXCEPT ![n] = r[2]]
               /\ pc' = [pc EXCEPT ![n] = "recover"]
               /\ UNCHANGED <<arg, cont>>
    /\ UNCHANGED <<prog, promVars, ip, sendLog, got, awaitRet>>

\* reject(OnRejection(err)), in Then (main.go:122) and Catch (main.go:137)
CallReject(n) ==
    /\ pc[n] = "call_reject"
    /\ calls' = [calls EXCEPT ![n] = Append(@, <<"reject", arg[n]>>)]
    /\ LET r == ApplyReject(prog[n].onReject, arg[n]) IN
        IF r[1] = "ret"
          THEN /\ arg' = [arg EXCEPT ![n] = r[2]]
               /\ cont' = [cont EXCEPT ![n] = "exit"]
               /\ pc' = [pc EXCEPT ![n] = "reject_guard"]
               /\ UNCHANGED panicval
          ELSE /\ panicval' = [panicval EXCEPT ![n] = r[2]]
               /\ pc' = [pc EXCEPT ![n] = "recover"]
               /\ UNCHANGED <<arg, cont>>
    /\ UNCHANGED <<prog, promVars, ip, sendLog, got, awaitRet>>

(***************************************************************************)
(* Promise.Catch (main.go:131-141)                                         *)
(***************************************************************************)
\* a Catch that runs its handler whichever channel fired
CatchSelectOneBranch(n) ==
    /\ pc[n] = "select"
    /\ prog[n].kind = "catch"
    /\ \E item \in ReadyItems(prog[n].parent) :
          /\ Take(prog[n].parent, item)
          /\ got' = [got EXCEPT ![n] = Append(@, item)]
          /\ arg' = [arg EXCEPT ![n] = item[2]]
          /\ pc' = [pc EXCEPT ![n] = "call_reject"]
    /\ cont' = [cont EXCEPT ![n] = "exit"]
    /\ UNCHANGED <<prog, state, result, err, ip, panicval,
                   sendLog, calls, awaitRet>>

CatchSelect(n) ==
    /\ pc[n] = "select"
    /\ prog[n].kind = "catch"
    /\ \E item \in ReadyItems(prog[n].parent) :
          /\ Take(prog[n].parent, item)
          /\ got' = [got EXCEPT ![n] = Append(@, item)]
          /\ arg' = [arg EXCEPT ![n] = item[2]]
          /\ pc' = [pc EXCEPT ![n] = IF item[1] = "V" THEN "resolve_guard"
                                                       ELSE "call_reject"]
    /\ cont' = [cont EXCEPT ![n] = "exit"]
    /\ UNCHANGED <<prog, state, result, err, ip, panicval,
                   sendLog, calls, awaitRet>>

(***************************************************************************)
(* Promise.Finally (main.go:146-156)                                       *)
(***************************************************************************)
FinallySelect(n) ==
    /\ pc[n] = "select"
    /\ prog[n].kind = "finally"
    /\ \E item \in ReadyItems(prog[n].parent) :
          /\ Take(prog[n].parent, item)
          /\ got' = [got EXCEPT ![n] = Append(@, item)]
          /\ arg' = [arg EXCEPT ![n] = item[2]]
          /\ pc' = [pc EXCEPT ![n] = IF item[1] = "V" THEN "resolve_guard"
                                                       ELSE "reject_guard"]
    /\ cont' = [cont EXCEPT ![n] = "finally"]
    /\ UNCHANGED <<prog, state, result, err, ip, panicval,
                   sendLog, calls, awaitRet>>

\* onFinally() (main.go:154)
CallFinally(n) ==
    /\ pc[n] = "call_finally"
    /\ calls' = [calls EXCEPT ![n] = Append(@, <<"finally", Nil>>)]
    /\ LET r == ApplyFinally(prog[n].onFinally) IN
        IF r[1] = "ret"
          THEN /\ pc' = [pc EXCEPT ![n] = "done"]
               /\ UNCHANGED panicval
          ELSE /\ pc' = [pc EXCEPT ![n] = "recover"]
               /\ panicval' = [panicval EXCEPT ![n] = r[2]]
    /\ UNCHANGED <<prog, promVars, ip, arg, cont, sendLog, got, awaitRet>>

(***************************************************************************)
(* Promise.Await (main.go:159-167), called by an await node                *)
(***************************************************************************)
AwaitSelect(n) ==
    /\ pc[n] = "select"
    /\ prog[n].kind = "await"
    /\ LET p == prog[n].parent IN
       \E item \in ReadyItems(p) :
          /\ Take(p, item)
          /\ result' = IF item[1] = "V" THEN [result EXCEPT ![p] = item[2]]
                                         ELSE result
          /\ err' = IF item[1] = "E" THEN [err EXCEPT ![p] = item[2]] ELSE err
          /\ got' = [got EXCEPT ![n] = Append(@, item)]
    /\ pc' = [pc EXCEPT ![n] = "await_ret"]
    /\ UNCHANGED <<prog, state, ip, arg, cont, panicval,
                   sendLog, calls, awaitRet>>

\* an Await that returns promise.result, nil
AwaitReturnDropsErr(n) ==
    /\ pc[n] = "await_ret"
    /\ awaitRet' = [awaitRet EXCEPT ![n] = <<result[prog[n].parent], Nil>>]
    /\ pc' = [pc EXCEPT ![n] = "done"]
    /\ UNCHANGED <<prog, promVars, ip, arg, cont, panicval,
                   sendLog, calls, got>>

\* return promise.result, promise.err
AwaitReturn(n) ==
    /\ pc[n] = "await_ret"
    /\ awaitRet' = [awaitRet EXCEPT ![n] =
                      <<result[prog[n].parent], err[prog[n].parent]>>]
    /\ pc' = [pc EXCEPT ![n] = "done"]
    /\ UNCHANGED <<prog, promVars, ip, arg, cont, panicval,
                   sendLog, calls, got>>

(***************************************************************************)
(* defer promise.handlePanic() (main.go:39, 46-59)                         *)
(***************************************************************************)
\* What recover() returns for a panic value.  panic(nil) is recovered as   
\* nil by toolchains before Go 1.21 (and with GODEBUG=panicnil=1), and as  
\* a *runtime.PanicNilError by later ones: the build decides.              
Recovered(pv) == IF pv = Nil THEN {Nil, PanicNilError} ELSE {pv}

\* the type switch of handlePanic, entered only when e != nil
HandlePanicError(e) ==
    CASE e = Nil -> PanicNilMsg
      [] e[1] \in {"err", "runtimeErr"} -> PanicWithError(e)
      [] OTHER -> PanicWithUnknown(e)

\* the goroutine function panicked: recover() stops the panic
HandlePanic(n) ==
    /\ pc[n] = "recover"
    /\ panicval[n] # None
    /\ \E e \in Recovered(panicval[n]) :
          IF e # Nil
            THEN /\ arg' = [arg EXCEPT ![n] = HandlePanicError(e)]
                 /\ cont' = [cont EXCEPT ![n] = "dead"]
                 /\ pc' = [pc EXCEPT ![n] = "reject_guard"]
            ELSE /\ pc' = [pc EXCEPT ![n] = "done"]
                 /\ UNCHANGED <<arg, cont>>
    /\ panicval' = [panicval EXCEPT ![n] = None]
    /\ UNCHANGED <<prog, promVars, ip, histVars>>


(***************************************************************************)
(* The programs explored.                                                  *)
(***************************************************************************)
SeqsUpTo(S, k) == UNION {[1..j -> S] : j \in 0..k}

\* what an executor may panic with: nil, an error, any other value
PanicValues == {Nil, ErrVal(1), IntVal(1)}

\* Executors: up to MaxScript settle calls, then a return or a panic.  The
\* i-th call passes the value i (resolve) or the error i (reject), so that
\* every item sent tells which call sent it.
ScriptOf(ks, panics) ==
    [i \in 1..Len(ks) |->
        IF ks[i] = "resolve" THEN <<"resolve", IntVal(i)>>
                             ELSE <<"reject", ErrVal(i)>>]
    \o (IF panics THEN << <<"panic", ErrVal(Len(ks) + 1)>> >> ELSE << >>)

Scripts ==
    {ScriptOf(ks, b) : ks \in SeqsUpTo({"resolve", "reject"}, MaxScript),
                       b \in BOOLEAN}

\* one consumer of promise p, of each kind
ConsumerKinds(p) ==
    << ThenNode(p, <<"inc", 0>>, <<"pass", 0>>),
       CatchNode(p, <<"pass", 0>>),
       FinallyNode(p, <<"ret", 0>>),
       AwaitNode(p) >>

\* a promise read by up to two consumers of any kinds
FanPrograms ==
    {<<NewNode(s)>> : s \in Scripts}
    \cup
    {<<NewNode(s), ConsumerKinds(1)[i]>> : s \in Scripts, i \in 1..4}
    \cup
    {<<NewNode(s), ConsumerKinds(1)[i], ConsumerKinds(1)[j]>> :
        s \in Scripts, i \in 1..4, j \in 1..4}

\* the handlers a link of a chain may carry
ThenHandlers ==
    { <<<<"inc", 0>>, <<"pass", 0>>>>,
      <<<<"retnil", 0>>, <<"retnil", 0>>>>,
      <<<<"panicerr", 1>>, <<"reterr", 2>>>> }
CatchHandlers == { <<"pass", 0>>, <<"retnil", 0>>, <<"panicerr", 2>> }
FinallyHandlers == { <<"ret", 0>>, <<"panicerr", 2>> }

Links(p) ==
    {ThenNode(p, h[1], h[2]) : h \in ThenHandlers}
    \cup {CatchNode(p, h) : h \in CatchHandlers}
    \cup {FinallyNode(p, h) : h \in FinallyHandlers}

\* the promises a chain may start from
Roots ==
    {ResolveNode(IntVal(k)) : k \in 1..MaxVal}
    \cup {RejectNode(ErrVal(1)), NewNode(<< >>)}

\* root.L1(...).L2(...)...: node 1 is the root, node i+1 is link i
RECURSIVE LinkSeqs(_)
LinkSeqs(k) ==
    IF k = 0 THEN {<<r>> : r \in Roots}
    ELSE {Append(c, l) : c \in LinkSeqs(k - 1), l \in Links(k)}

\* root.L1(...).L2(...)....Await()
ChainsOf(k) == {Append(c, AwaitNode(k + 1)) : c \in LinkSeqs(k)}

ChainPrograms == UNION {ChainsOf(k) : k \in 0..MaxChain}

\* how the innermost promise of a nesting settles
Leaves ==
    {ResolveNode(IntVal(k)) : k \in 1..MaxVal}
    \cup {ResolveNode(Nil), RejectNode(ErrVal(1)), RejectNode(Nil)}

\* Resolve(v).Await(), Reject(e).Await(), New(func(...) { panic(v) }).Await()
DirectPrograms ==
    {<<leaf, AwaitNode(1)>> : leaf \in Leaves}
    \cup
    {<<NewNode(<< <<"panic", v>> >>), AwaitNode(1)>> : v \in PanicValues}

\* Resolve(Resolve(...Resolve(leaf)...)).Await(), d promises deep:
\* promise i resolves with promise i+1, promise d+1 is the leaf
NestOf(d, leaf) ==
    [i \in 1..(d + 2) |->
        IF i <= d THEN ResolveNode(PromiseVal(i + 1))
        ELSE IF i = d + 1 THEN leaf
        ELSE AwaitNode(1)]

\* root.Then(func(data) { return <promise 1> }, ...).Await(), with the
\* returned promise d promises deep
ThenNestOf(d, leaf, root) ==
    [i \in 1..(d + 4) |->
        IF i <= d THEN ResolveNode(PromiseVal(i + 1))
        ELSE IF i = d + 1 THEN leaf
        ELSE IF i = d + 2 THEN root
        ELSE IF i = d + 3 THEN ThenNode(d + 2, <<"retpromise", 1>>, <<"pass", 0>>)
        ELSE AwaitNode(d + 3)]

NestPrograms ==
    {NestOf(d, leaf) : d \in 1..MaxDepth, leaf \in Leaves}
    \cup
    {ThenNestOf(d, leaf, ResolveNode(IntVal(1))) :
        d \in 0..(MaxDepth - 1), leaf \in Leaves}

\* a handler that panics with the value v
PanicHandler(v) ==
    CASE v = Nil -> <<"panicnil", 0>>
      [] v[1] = "err" -> <<"panicerr", v[2]>>
      [] OTHER -> <<"panicval", v[2]>>

\* Resolve(1) or Reject(e) followed by a Then or a Catch whose handlers
\* panic, and an Await
PanicChainPrograms ==
    {<<root, ThenNode(1, PanicHandler(v), PanicHandler(v)), AwaitNode(2)>> :
        root \in {ResolveNode(IntVal(1)), RejectNode(ErrVal(1))},
        v \in PanicValues}
    \cup
    {<<RejectNode(ErrVal(1)), CatchNode(1, PanicHandler(v)), AwaitNode(2)>> :
        v \in PanicValues}

(***************************************************************************)
(* The demo of main (main.go:175-215).                                     *)
(***************************************************************************)
\* the number main compares testNum with (main.go:179, 185)
DemoNum == 3

\* the values of the -testNum flag explored
TestNums == 0..(MaxVal + 2)

\* errors.New(fmt.Sprintf("%d is not equal to 3", testNum))
NotEqualError(k) == <<"notEqual", k>>

\* the executor of main: resolve(testNum) if testNum == 3, else reject
DemoExecutor(testNum) ==
    IF testNum = DemoNum THEN << <<"resolve", IntVal(testNum)>> >>
    ELSE << <<"reject", NotEqualError(testNum)>> >>

\* New(...).Then(+1, pass).Then(->nil, pass).Catch(->nil).Finally(cb), and
\* p.Await()
DemoProgram(testNum) ==
    << NewNode(DemoExecutor(testNum)),
       ThenNode(1, <<"inc", 0>>, <<"pass", 0>>),
       ThenNode(2, <<"retnil", 0>>, <<"pass", 0>>),
       CatchNode(3, <<"retnil", 0>>),
       FinallyNode(4, <<"ret", 0>>),
       AwaitNode(5) >>

DemoPrograms == {DemoProgram(k) : k \in TestNums}

(***************************************************************************)
(* Two goroutines settling one promise:                                    *)
(*   New(func(resolve, reject) { go resolve(1); go reject(e2) })           *)
(* with no consumer or one consumer of any kind.                           *)
(***************************************************************************)
\* the call goroutine i makes: resolve(i) or reject(error i)
RaceCall(k, i) ==
    IF k = "resolve" THEN <<"resolve", IntVal(i)>> ELSE <<"reject", ErrVal(i)>>

RacePrograms ==
    {<<NewNode(<< >>), GoNode(1, RaceCall(k1, 1)), GoNode(1, RaceCall(k2, 2))>> :
        k1 \in {"resolve", "reject"}, k2 \in {"resolve", "reject"}}
    \cup
    {<<NewNode(<< >>), GoNode(1, RaceCall(k1, 1)), GoNode(1, RaceCall(k2, 2)),
       ConsumerKinds(1)[c]>> :
        k1 \in {"resolve", "reject"}, k2 \in {"resolve", "reject"}, c \in 1..4}

Programs ==
    FanPrograms \cup DirectPrograms \cup ChainPrograms \cup NestPrograms
    \cup PanicChainPrograms \cup DemoPrograms

(***************************************************************************)
(* New (main.go:28-44): a pending promise with two empty channels, its     *)
(* executor goroutine started.  All promises of the program are built      *)
(* before any goroutine is scheduled.                                      *)
(***************************************************************************)
Start ==
    /\ state = [n \in DOMAIN prog |-> PENDING]
    /\ resolveChannel = [n \in DOMAIN prog |-> << >>]
    /\ rejectChannel = [n \in DOMAIN prog |-> << >>]
    /\ result = [n \in DOMAIN prog |-> Nil]
    /\ err = [n \in DOMAIN prog |-> Nil]
    /\ pc = [n \in DOMAIN prog |->
                IF prog[n].kind \in {"new", "go"} THEN "exec" ELSE "select"]
    /\ ip = [n \in DOMAIN prog |-> 1]
    /\ arg = [n \in DOMAIN prog |-> Nil]
    /\ cont = [n \in DOMAIN prog |-> "exit"]
    /\ panicval = [n \in DOMAIN prog |-> None]
    /\ sendLog = [n \in DOMAIN prog |-> << >>]
    /\ calls = [n \in DOMAIN prog |-> << >>]
    /\ got = [n \in DOMAIN prog |-> << >>]
    /\ awaitRet = [n \in DOMAIN prog |-> NotReturned]

\* programs whose promises are settled by their own executor only
Init == prog \in Programs /\ Start

\* the same programs, and those that settle a promise from two goroutines
RaceInit == prog \in (Programs \cup RacePrograms) /\ Start

Next ==
    \/ \E n \in Nodes : ExecCall(n)
    \/ \E n \in Nodes : ExecPanic(n)
    \/ \E n \in Nodes : ExecReturn(n)
    \/ \E n \in Nodes : RejectGuard(n)
    \/ \E n \in Nodes : RejectState(n)
    \/ \E n \in Nodes : RejectSend(n)
    \/ \E n \in Nodes : ResolveGuard(n)
    \/ \E n \in Nodes : InnerSelect(n)
    \/ \E n \in Nodes : InnerReturn(n)
    \/ \E n \in Nodes : ResolveSend(n)
    \/ \E n \in Nodes : ResolveState(n)
    \/ \E n \in Nodes : ThenSelect(n)
    \/ \E n \in Nodes : ThenReset(n)
    \/ \E n \in Nodes : CallFulfill(n)
    \/ \E n \in Nodes : CallReject(n)
    \/ \E n \in Nodes : CatchSelect(n)
    \/ \E n \in Nodes : FinallySelect(n)
    \/ \E n \in Nodes : CallFinally(n)
    \/ \E n \in Nodes : AwaitSelect(n)
    \/ \E n \in Nodes : AwaitReturn(n)
    \/ \E n \in Nodes : HandlePanic(n)

Spec == Init /\ [][Next]_vars

RaceSpec == RaceInit /\ [][Next]_vars

\* The Go scheduler runs every goroutine that can take a step.  Every
\* goroutine of a program stops or blocks after finitely many steps, so
\* fairness of Next is fairness for each goroutine.
FairSpec == Spec /\ WF_vars(Next)


(***************************************************************************)
(* Vocabulary of the properties.                                           *)
(***************************************************************************)
AwaitNodes == {n \in Nodes : prog[n].kind = "await"}
NodesOfKind(k) == {n \in Nodes : prog[n].kind = k}

\* the items sent so far on the value channel / on the error channel of p
ValuesSent(p) == SelectSeq(sendLog[p], LAMBDA it : it[1] = "V")
ErrorsSent(p) == SelectSeq(sendLog[p], LAMBDA it : it[1] = "E")
ItemsSent(p) == {sendLog[p][i] : i \in DOMAIN sendLog[p]}

\* the executor of p is Resolve(v) with a plain value, or Reject(e)
IsResolveOf(p) ==
    /\ prog[p].kind = "new"
    /\ Len(prog[p].script) = 1
    /\ prog[p].script[1][1] = "resolve"
    /\ ~IsPromise(prog[p].script[1][2])
IsRejectOf(p) ==
    /\ prog[p].kind = "new"
    /\ Len(prog[p].script) = 1
    /\ prog[p].script[1][1] = "reject"
SettleArg(p) == prog[p].script[1][2]

\* node n has received the settlement of its parent
Received(n) == got[n] # << >>
ReceivedValue(n) == Received(n) /\ got[n][1][1] = "V"
ReceivedError(n) == Received(n) /\ got[n][1][1] = "E"

\* Await has returned to await node a
Returned(a) == awaitRet[a] # NotReturned

\* the await nodes that are the only consumer of promise p
SoleAwaits(p) == {a \in AwaitNodes : Consumers(p) = {a}}

\* No goroutine can take a step: each has ended or is blocked for good.
\* The position of a goroutine only moves forward, so under fair scheduling
\* every run ends in such a state, and what holds in all of them is what
\* eventually holds.
Quiescent == ~ENABLED Next

\* every fair run ends in a quiescent state (a property of FairSpec)
Terminates == <>Quiescent

(***************************************************************************)
(* C1: at most one item in total is ever sent on the value channel and the *)
(* error channel of a promise, whatever its executor calls and whichever   *)
(* consumers read it.                                                      *)
(* Violated: after resolve(1) a Then consumer receives the value and       *)
(* resets the parent's state to PENDING (main.go:119), so the executor's   *)
(* next resolve or reject passes the guard and sends a second item.        *)
(***************************************************************************)
C1_AtMostOneSend == \A p \in Promises : Len(sendLog[p]) <= 1

(***************************************************************************)
(* C2: Resolve(v).Await() returns (v, nil) for every plain value v, and    *)
(* Reject(e).Await() returns (nil, e) for every error e: an Await that has *)
(* returned has returned exactly that pair, and when no goroutine can move *)
(* any more the only Await on such a promise has returned.                 *)
(***************************************************************************)
C2_Expected(p) ==
    IF IsResolveOf(p) THEN <<SettleArg(p), Nil>> ELSE <<Nil, SettleArg(p)>>

C2_ResolveRejectAwait ==
    \A a \in AwaitNodes :
        LET p == prog[a].parent IN
        (IsResolveOf(p) \/ IsRejectOf(p)) =>
            /\ Returned(a) => awaitRet[a] = C2_Expected(p)
            /\ (Quiescent /\ Consumers(p) = {a}) => Returned(a)

C2_Witness ==
    \E a \in AwaitNodes :
        /\ IsRejectOf(prog[a].parent)
        /\ Consumers(prog[a].parent) = {a}
        /\ Quiescent
        /\ awaitRet[a] = <<Nil, ErrVal(1)>>

(***************************************************************************)
(* Nesting: the promise a resolve call was handed.                         *)
(***************************************************************************)
\* node n calls resolve with a promise: Resolve(q), or a Then whose fulfil
\* handler returned q
ResolvesWithPromise(n) ==
    \/ /\ prog[n].kind = "new"
       /\ Len(prog[n].script) = 1
       /\ prog[n].script[1][1] = "resolve"
       /\ IsPromise(prog[n].script[1][2])
    \/ /\ prog[n].kind = "then"
       /\ prog[n].onFulfill[1] = "retpromise"
       /\ ReceivedValue(n)

InnerOf(n) ==
    IF prog[n].kind = "new" THEN prog[n].script[1][2][2]
                            ELSE prog[n].onFulfill[2]

\* the innermost promise of a nesting
RECURSIVE LeafOf(_)
LeafOf(n) == IF ResolvesWithPromise(n) THEN LeafOf(InnerOf(n)) ELSE n

\* how many promises lie between n and the innermost one
RECURSIVE DepthOf(_)
DepthOf(n) == IF ResolvesWithPromise(n) THEN 1 + DepthOf(InnerOf(n)) ELSE 0

(***************************************************************************)
(* C3: flattening.  No item sent on a value channel, received by a         *)
(* consumer or passed to a handler is a promise.  A promise resolved with  *)
(* an inner promise sends nothing before the inner one has sent, and when  *)
(* the inner one fulfils with v it sends exactly the value v; so           *)
(* Resolve(Resolve(v)).Await(), at any depth and also when the inner       *)
(* promise comes from a Then fulfil handler, returns (v, nil), and it does *)
(* return.                                                                 *)
(***************************************************************************)
C3_Flattening ==
    /\ \A n \in Nodes :
          /\ \A i \in DOMAIN sendLog[n] : ~IsPromise(sendLog[n][i][2])
          /\ \A i \in DOMAIN resolveChannel[n] : ~IsPromise(resolveChannel[n][i])
          /\ \A i \in DOMAIN got[n] : ~IsPromise(got[n][i][2])
          /\ \A i \in DOMAIN calls[n] : ~IsPromise(calls[n][i][2])
          /\ ~IsPromise(awaitRet[n][1])
    /\ \A n \in Promises :
          (ResolvesWithPromise(n) /\ sendLog[n] # << >>) =>
              /\ sendLog[InnerOf(n)] # << >>
              /\ sendLog[InnerOf(n)][1][1] = "V" => sendLog[n] = sendLog[InnerOf(n)]
    /\ \A a \in AwaitNodes :
          LET p == prog[a].parent IN
          (ResolvesWithPromise(p) /\ IsResolveOf(LeafOf(p))) =>
              /\ Returned(a) => awaitRet[a] = <<SettleArg(LeafOf(p)), Nil>>
              /\ Quiescent => Returned(a)

\* Resolve(...Resolve(v)...).Await(), MaxDepth promises around the
\* innermost, has returned (v, nil)
C3_Witness ==
    \E a \in AwaitNodes :
        /\ ResolvesWithPromise(prog[a].parent)
        /\ DepthOf(prog[a].parent) = MaxDepth
        /\ IsResolveOf(LeafOf(prog[a].parent))
        /\ awaitRet[a] = <<IntVal(MaxVal), Nil>>

(***************************************************************************)
(* C4: flattening propagates failure.  A promise resolved with an inner    *)
(* promise that rejects with a non-nil error e sends e on its error        *)
(* channel and nothing on its value channel, is Rejected from its send on, *)
(* and Resolve(Reject(e)).Await() returns (nil, e), and it does return.    *)
(***************************************************************************)
C4_FlattenRejects ==
    \A n \in Promises :
        (/\ ResolvesWithPromise(n)
         /\ IsRejectOf(LeafOf(n))
         /\ SettleArg(LeafOf(n)) # Nil) =>
            LET e == SettleArg(LeafOf(n)) IN
            /\ ValuesSent(n) = << >>
            /\ sendLog[n] \in {<< >>, << <<"E", e>> >>}
            /\ sendLog[n] # << >> => state[n] = REJECTED
            /\ state[n] # FULFILLED
            /\ \A a \in AwaitNodes :
                  prog[a].parent = n =>
                     /\ Returned(a) => awaitRet[a] = <<Nil, e>>
                     /\ Quiescent => Returned(a) /\ state[n] = REJECTED

C4_Witness ==
    \E a \in AwaitNodes :
        /\ prog[prog[a].parent].kind = "new"
        /\ ResolvesWithPromise(prog[a].parent)
        /\ IsRejectOf(LeafOf(prog[a].parent))
        /\ awaitRet[a] = <<Nil, ErrVal(1)>>
        /\ state[prog[a].parent] = REJECTED

(***************************************************************************)
(* What a handler makes of the settlement its node received.               *)
(***************************************************************************)
\* the outcome of the Then handler matching the item node t received
ThenOutcome(t) ==
    IF got[t][1][1] = "V" THEN ApplyFulfill(prog[t].onFulfill, got[t][1][2])
                          ELSE ApplyReject(prog[t].onReject, got[t][1][2])

\* the handler call node n owes to the item it received
MatchingCall(n) ==
    <<IF got[n][1][1] = "V" THEN "fulfill" ELSE "reject", got[n][1][2]>>

(***************************************************************************)
(* C5: p.Then(onFulfill, onReject) invokes exactly one of its handlers,    *)
(* exactly once, on the matching branch: never more than one call, the     *)
(* call is onFulfill(v) when the parent sent the value v and onReject(e)   *)
(* when it sent the error e, and it has been made once the Then executor   *)
(* has ended or no goroutine can move.  When the handler returns a plain   *)
(* value, Await on the returned promise returns (onFulfill(v), nil), resp. *)
(* (nil, onReject(e)), and it does return.                                 *)
(***************************************************************************)
C5_ThenHandlers ==
    \A t \in NodesOfKind("then") :
        LET p == prog[t].parent IN
        /\ Len(got[t]) <= 1
        /\ Len(calls[t]) <= 1
        /\ Received(t) => got[t][1] \in ItemsSent(p)
        /\ calls[t] # << >> => Received(t) /\ calls[t][1] = MatchingCall(t)
        /\ pc[t] = "done" => Len(calls[t]) = 1
        /\ (sendLog[p] # << >> /\ Consumers(p) = {t} /\ Quiescent) =>
              Len(calls[t]) = 1
        /\ \A a \in SoleAwaits(t) :
              (/\ Received(t)
               /\ ThenOutcome(t)[1] = "ret"
               /\ ~IsPromise(ThenOutcome(t)[2])) =>
                 /\ Returned(a) =>
                       awaitRet[a] = IF got[t][1][1] = "V"
                                       THEN <<ThenOutcome(t)[2], Nil>>
                                       ELSE <<Nil, ThenOutcome(t)[2]>>
                 /\ Quiescent => Returned(a)

\* Resolve(v).Then(inc, g).Await() has returned (v + 1, nil) after one call
\* of inc; Reject(e).Then(f, g).Await() has returned (nil, g(e)) after one
\* call of g
C5_Witness ==
    \E a \in AwaitNodes :
        LET t == prog[a].parent IN
        /\ prog[t].kind = "then"
        /\ IsResolveOf(prog[t].parent)
        /\ calls[t] = << <<"fulfill", IntVal(MaxVal)>> >>
        /\ awaitRet[a] = <<IntVal(MaxVal + 1), Nil>>

C5_WitnessReject ==
    \E a \in AwaitNodes :
        LET t == prog[a].parent IN
        /\ prog[t].kind = "then"
        /\ IsRejectOf(prog[t].parent)
        /\ calls[t] = << <<"reject", ErrVal(1)>> >>
        /\ awaitRet[a] = <<Nil, ErrVal(2)>>

C7_Finally ==
    \A f \in NodesOfKind("finally") :
        LET p == prog[f].parent IN
        /\ Len(got[f]) <= 1
        /\ Len(calls[f]) <= 1
        /\ Received(f) => got[f][1] \in ItemsSent(p)
        /\ calls[f] # << >> => Received(f)
        /\ (Received(f) /\ (pc[f] = "done" \/ Quiescent)) => Len(calls[f]) = 1
        /\ ApplyFinally(prog[f].onFinally)[1] = "ret" =>
              /\ sendLog[f] \in {<< >>, got[f]}
              /\ calls[f] # << >> => sendLog[f] = got[f]
              /\ \A a \in SoleAwaits(f) :
                    /\ Returned(a) =>
                          awaitRet[a] = IF got[f][1][1] = "V"
                                          THEN <<got[f][1][2], Nil>>
                                          ELSE <<Nil, got[f][1][2]>>
                    /\ (Quiescent /\ Received(f)) => Returned(a)

\* Reject(e).Finally(cb).Await() has returned (nil, e), cb invoked once
C7_Witness ==
    \E a \in AwaitNodes :
        LET f == prog[a].parent IN
        /\ prog[f].kind = "finally"
        /\ IsRejectOf(prog[f].parent)
        /\ Len(calls[f]) = 1
        /\ sendLog[f] = << <<"E", ErrVal(1)>> >>
        /\ awaitRet[a] = <<Nil, ErrVal(1)>>

(***************************************************************************)
(* C8: healing.  When the reject handler of a Then or Catch on a rejected  *)
(* parent returns nil, the promise that Then/Catch returned is Fulfilled,  *)
(* its settlement is sent on the value channel and not on the error        *)
(* channel, and a Then chained after it invokes its fulfil handler.        *)
(* Violated: reject(OnRejection(err)) is called whatever the handler       *)
(* returns (main.go:122, 137), so a nil error is sent on rejectChannel,    *)
(* the state becomes REJECTED and the next Then calls its reject handler   *)
(* with nil.                                                               *)
(***************************************************************************)
C8_Healed(n) ==
    /\ prog[n].kind \in {"then", "catch"}
    /\ ReceivedError(n)
    /\ calls[n] # << >>
    /\ ApplyReject(prog[n].onReject, got[n][1][2]) = <<"ret", Nil>>

C8_Healing ==
    \A n \in Nodes :
        (C8_Healed(n) /\ pc[n] = "done") =>
            /\ state[n] = FULFILLED
            /\ ErrorsSent(n) = << >>
            /\ ValuesSent(n) # << >>
            /\ \A d \in Consumers(n) :
                  (prog[d].kind = "then" /\ calls[d] # << >>) =>
                      calls[d][1][1] = "fulfill"

(***************************************************************************)
(* C9: every promise whose executor has terminated, by returning after     *)
(* calling resolve or reject with plain values or by panicking with any    *)
(* value, nil included, has settled once no goroutine can move: exactly    *)
(* one item was sent on its channels, the only Await on it has returned,   *)
(* and no panic is left unrecovered.                                       *)
(* Violated: handlePanic rejects only if recover() != nil (main.go:49), so *)
(* its "case nil" (main.go:51-52) is never taken; an executor that panics  *)
(* with nil, recovered as nil, ends without settling its promise and the   *)
(* Await blocks for good.                                                  *)
(***************************************************************************)
C9_ExecutorSettles(p) ==
    /\ prog[p].kind = "new"
    /\ Len(prog[p].script) >= 1
    /\ \A i \in DOMAIN prog[p].script : ~IsPromise(prog[p].script[i][2])

C9_EventuallySettles ==
    \A p \in Promises :
        (C9_ExecutorSettles(p) /\ pc[p] = "done" /\ Quiescent) =>
            /\ panicval[p] = None
            /\ Len(sendLog[p]) = 1
            /\ \A a \in SoleAwaits(p) : Returned(a)

(***************************************************************************)
(* C10: single delivery.  When two or more consumers read a promise whose  *)
(* executor settles it once, at most one of them ever receives the         *)
(* settlement, a consumer that has not received it is blocked in its       *)
(* select with no handler invoked, and once no goroutine can move exactly  *)
(* one consumer has received it.                                           *)
(***************************************************************************)
C10_Receivers(p) == {c \in Consumers(p) : Received(c)}

C10_SingleDelivery ==
    \A p \in Promises :
        ((IsResolveOf(p) \/ IsRejectOf(p)) /\ Cardinality(Consumers(p)) >= 2) =>
            /\ Cardinality(C10_Receivers(p)) <= 1
            /\ \A c \in Consumers(p) \ C10_Receivers(p) :
                  /\ pc[c] = "select"
                  /\ calls[c] = << >>
                  /\ ~Returned(c)
            /\ Quiescent => Cardinality(C10_Receivers(p)) = 1

\* two consumers of one settled promise: one has finished, one is blocked
C10_Witness ==
    \E p \in Promises :
        /\ IsResolveOf(p)
        /\ Quiescent
        /\ \E c \in Consumers(p), d \in Consumers(p) :
              /\ prog[c].kind = "then" /\ prog[d].kind = "await"
              /\ calls[c] # << >> /\ pc[c] = "done"
              /\ pc[d] = "select"

(***************************************************************************)
(* C11: the demo chain New(...).Then(+1, pass).Then(->nil, pass)           *)
(* .Catch(->nil).Finally(cb) followed by Await.  For input 3 the first     *)
(* fulfil handler receives 3, the second receives 4 and the Catch handler  *)
(* is never invoked; for any other input no fulfil handler is invoked and  *)
(* the two Then reject handlers and then the Catch handler each receive    *)
(* the original error exactly once; in both cases Await returns            *)
(* (nil, nil), and it does return in every interleaving.                   *)
(***************************************************************************)
C11_AtMostOnce(n, call) == calls[n] \in {<< >>, <<call>>}

C11_DemoChain ==
    \A k \in TestNums :
        prog = DemoProgram(k) =>
            /\ k = 3 =>
                  /\ C11_AtMostOnce(2, <<"fulfill", IntVal(3)>>)
                  /\ C11_AtMostOnce(3, <<"fulfill", IntVal(4)>>)
                  /\ calls[4] = << >>
                  /\ Quiescent => calls[2] # << >> /\ calls[3] # << >>
            /\ k # 3 =>
                  /\ \A n \in 2..4 :
                        C11_AtMostOnce(n, <<"reject", NotEqualError(k)>>)
                  /\ calls[3] # << >> => calls[2] # << >>
                  /\ calls[4] # << >> => calls[3] # << >>
                  /\ Quiescent => \A n \in 2..4 : calls[n] # << >>
            /\ Returned(6) => awaitRet[6] = <<Nil, Nil>>
            /\ Quiescent => Returned(6)

\* the demo run with 3: handlers saw 3 and 4, Catch was bypassed, Await
\* returned (nil, nil)
C11_Witness ==
    /\ prog = DemoProgram(3)
    /\ calls[2] = << <<"fulfill", IntVal(3)>> >>
    /\ calls[3] = << <<"fulfill", IntVal(4)>> >>
    /\ calls[4] = << >>
    /\ awaitRet[6] = <<Nil, Nil>>

\* the demo run with another number: the error went through the three
\* reject handlers, Await returned (nil, nil)
C11_WitnessReject ==
    /\ prog = DemoProgram(DemoNum + 1)
    /\ \A n \in 2..4 : calls[n] = << <<"reject", NotEqualError(DemoNum + 1)>> >>
    /\ awaitRet[6] = <<Nil, Nil>>

(***************************************************************************)
(* C12: settlement is idempotent.  Once the first resolve or reject call   *)
(* of a promise's executor has completed, no later step of that executor   *)
(* (a further resolve or reject call, or the reject of panic recovery)     *)
(* sends anything on the promise's channels or changes its state,          *)
(* whichever consumer is attached and whether or not it has read the       *)
(* settlement.                                                             *)
(* Violated: a Then consumer that has read the value resets the parent's   *)
(* state to PENDING (main.go:119); the next call of the executor then      *)
(* passes the guard, writes the state and sends a second item.             *)
(***************************************************************************)
C12_FirstCallDone(p) ==
    /\ prog[p].kind = "new"
    /\ ip[p] >= 2
    /\ ~(ip[p] = 2 /\ cont[p] = "exec" /\ pc[p] \notin {"exec", "recover", "done"})

C12_Idempotent ==
    [][\A p \in Nodes :
          (C12_FirstCallDone(p) /\ pc'[p] # pc[p]) =>
              /\ sendLog'[p] = sendLog[p]
              /\ state'[p] = state[p]
              /\ resolveChannel'[p] = resolveChannel[p]
              /\ rejectChannel'[p] = rejectChannel[p]]_vars

(***************************************************************************)
(* C13: panic recovery.  A promise whose executor goroutine panics before  *)
(* the promise has settled (the executor of New itself, or a Then / Catch  *)
(* handler run by a chained promise's executor) ends Rejected with exactly *)
(* one error sent, chosen by the panic value: the fixed error "panic       *)
(* recovery with nil error" for nil, an error wrapping the message for an  *)
(* error, an error wrapping the string form for any other value.           *)
(* Violated for nil: handlePanic enters its type switch only if            *)
(* recover() != nil (main.go:49), so "case nil" (main.go:51-52) is never   *)
(* taken.  A panic(nil) recovered as nil leaves the promise Pending with   *)
(* nothing sent; recovered as a *runtime.PanicNilError it is rejected      *)
(* through "case error" with another message.                              *)
(***************************************************************************)
\* the value the goroutine of n panics with before n has settled, or None
C13_PanicValue(n) ==
    IF /\ prog[n].kind = "new"
       /\ Len(prog[n].script) >= 1
       /\ prog[n].script[1][1] = "panic"
      THEN prog[n].script[1][2]
    ELSE IF prog[n].kind = "then" /\ Received(n) /\ ThenOutcome(n)[1] = "panic"
      THEN ThenOutcome(n)[2]
    ELSE IF /\ prog[n].kind = "catch"
            /\ ReceivedError(n)
            /\ ApplyReject(prog[n].onReject, got[n][1][2])[1] = "panic"
      THEN ApplyReject(prog[n].onReject, got[n][1][2])[2]
    ELSE None

\* the panic-derived error the three cases call for
C13_Expected(v) ==
    CASE v = Nil -> <<"panicNil", 0>>
      [] v[1] = "err" -> <<"panicErr", v[2]>>
      [] v[1] = "runtimeErr" -> <<"panicRuntimeErr", v[2]>>
      [] OTHER -> <<"panicUnknown", v[2]>>

C13_PanicRejects ==
    \A n \in Promises :
        (C13_PanicValue(n) # None /\ pc[n] = "done") =>
            /\ state[n] = REJECTED
            /\ sendLog[n] = << <<"E", C13_Expected(C13_PanicValue(n))>> >>

(***************************************************************************)
(* C14: chain ordering.  In a chain built with Then / Catch / Finally, a   *)
(* link invokes its handler or callback only after its parent has sent its *)
(* settlement and the link has received it, hence only after the handler   *)
(* that produced the parent's settlement has been invoked and has          *)
(* returned or panicked; the same holds for every promise further up the   *)
(* chain, so the Then / Catch handlers along a chain run in chain order in *)
(* every interleaving, although every goroutine runs from the start.       *)
(***************************************************************************)
\* the promises up the chain from node n
RECURSIVE Ancestors(_)
Ancestors(n) ==
    IF prog[n].parent = 0 THEN {}
    ELSE {prog[n].parent} \cup Ancestors(prog[n].parent)

\* the settlement of link a comes out of one of its handlers: always for a
\* Then, on the error branch for a Catch, never for a Finally
C14_HandlerSettles(a) ==
    \/ prog[a].kind = "then"
    \/ prog[a].kind = "catch" /\ ReceivedError(a)

\* the goroutine of link a is past its handler call
C14_HandlerReturned(a) ==
    /\ calls[a] # << >>
    /\ pc[a] \notin {"select", "then_reset", "call_fulfill", "call_reject"}

C15_CallbackBeforeAwait ==
    \A a \in AwaitNodes :
        (prog[prog[a].parent].kind = "finally" /\ Returned(a)) =>
            calls[prog[a].parent] # << >>

(***************************************************************************)
(* C16: settlement sends never block.  For a promise settled only by its   *)
(* own executor goroutine (any calls in any order, and the reject of panic *)
(* recovery), with any consumers attached, the channel a resolve or reject *)
(* call is about to send on is empty whenever the call reaches its send,   *)
(* so the send can go through at once and no goroutine ever waits at a     *)
(* send.                                                                   *)
(***************************************************************************)
C16_SendsNeverBlock ==
    \A p \in Promises :
        Settlers(p) = {} =>
            /\ pc[p] = "resolve_send" =>
                  resolveChannel[p] = << >> /\ ENABLED ResolveSend(p)
            /\ pc[p] = "reject_send" =>
                  rejectChannel[p] = << >> /\ ENABLED RejectSend(p)

\* a second send is attempted, after a Then consumer read the first item
\* and reset the state: the slot is free again
C16_Witness ==
    \E p \in Promises :
        /\ Settlers(p) = {}
        /\ Cardinality(Consumers(p)) = 2
        /\ pc[p] = "reject_send"
        /\ Len(ValuesSent(p)) = 1

(***************************************************************************)
(* C17: a promise whose executor returns without calling resolve or        *)
(* reject, without panicking and without handing them to another           *)
(* goroutine never settles: it and every promise chained downstream of it  *)
(* stay Pending with both channels empty and nothing ever sent, no         *)
(* downstream handler or callback is ever invoked, every downstream        *)
(* goroutine stays in its select, and no Await on it or on a downstream    *)
(* promise ever returns.                                                   *)
(***************************************************************************)
\* the executor of r makes no call at all
C17_NeverSettles(r) ==
    /\ prog[r].kind = "new"
    /\ prog[r].script = << >>
    /\ Settlers(r) = {}

\* r, and the nodes chained downstream of r
C17_Downstream(r) == {n \in Nodes : n = r \/ r \in Ancestors(n)}

C17_NeverSettling ==
    \A r \in Nodes :
        C17_NeverSettles(r) =>
            \A n \in C17_Downstream(r) :
                /\ n \in Promises =>
                      /\ state[n] = PENDING
                      /\ resolveChannel[n] = << >>
                      /\ rejectChannel[n] = << >>
                      /\ sendLog[n] = << >>
                /\ calls[n] = << >>
                /\ got[n] = << >>
                /\ n # r => pc[n] = "select"
                /\ ~Returned(n)

\* New(func(resolve, reject) {}).Then(f, g).Finally(cb).Await(): everything
\* has stopped, the three downstream goroutines wait in their selects
C17_Witness ==
    \E r \in Nodes :
        /\ C17_NeverSettles(r)
        /\ Quiescent
        /\ pc[r] = "done"
        /\ \E a \in AwaitNodes :
              /\ Cardinality(Ancestors(a)) = 3
              /\ r \in Ancestors(a)
              /\ \E t \in Ancestors(a) : prog[t].kind = "then"

(***************************************************************************)
(* C18: the unsynchronised settlement race.  When two goroutines call      *)
(* resolve and / or reject on the same Pending promise, both can pass the  *)
(* state != PENDING guard before either writes the state, and then two     *)
(* settlements are attempted: a goroutine that has passed the guard does   *)
(* not leave its call before its item is sent, so both items are sent      *)
(* (a value and an error, or two items on one channel once a consumer has  *)
(* emptied the slot), or the second sender stays blocked at its send on    *)
(* the full slot for as long as nothing is received from it.  The guard    *)
(* alone does not make the first settlement win.                           *)
(***************************************************************************)
\* the item goroutine t sends if it passes the guard
C18_Item(t) ==
    <<IF prog[t].script[1][1] = "resolve" THEN "V" ELSE "E", prog[t].script[1][2]>>

\* goroutine t found the promise PENDING and is still inside its call
C18_PastGuard(t) ==
    pc[t] \in {"reject_state", "reject_send", "resolve_send", "resolve_state"}

\* goroutine t stands at its send and the slot of its channel is taken
C18_Blocked(t) ==
    \/ pc[t] = "resolve_send" /\ Len(resolveChannel[prog[t].parent]) = ChanCap
    \/ pc[t] = "reject_send" /\ Len(rejectChannel[prog[t].parent]) = ChanCap

C18_Envelope ==
    \A p \in Promises :
        Cardinality(Settlers(p)) = 2 =>
            /\ Len(sendLog[p]) <= 2
            /\ \A i \in DOMAIN sendLog[p] :
                  \E t \in Settlers(p) : sendLog[p][i] = C18_Item(t)
            /\ Quiescent =>
                  /\ sendLog[p] # << >>
                  /\ \A t \in Settlers(p) :
                        \/ pc[t] = "done"
                        \/ /\ C18_Blocked(t)
                           /\ \A c \in Consumers(p) : pc[c] # "select"

C18_Race ==
    /\ []C18_Envelope
    /\ [][\A t \in Nodes :
             (prog[t].kind = "go" /\ C18_PastGuard(t)) =>
                 \/ pc'[t] \in {"reject_state", "reject_send",
                                "resolve_send", "resolve_state"}
                 \/ \E i \in DOMAIN sendLog'[prog[t].parent] :
                       sendLog'[prog[t].parent][i] = C18_Item(t)]_vars

\* both goroutines have passed the guard at once: one is about to write
\* the state REJECTED, the other already stands at its send
C18_WitnessBothPastGuard ==
    \E p \in Promises :
        \E t \in Settlers(p), u \in Settlers(p) :
            /\ state[p] = PENDING
            /\ sendLog[p] = << >>
            /\ pc[t] = "resolve_send"
            /\ pc[u] = "reject_state"

\* both settlements went through: a value and an error were sent
C18_Witness ==
    \E p \in Promises :
        /\ Cardinality(Settlers(p)) = 2
        /\ ValuesSent(p) # << >>
        /\ ErrorsSent(p) # << >>

\* the second sender is blocked for good on the full slot
C18_WitnessBlocked ==
    \E p \in Promises :
        /\ Quiescent
        /\ \E t \in Settlers(p) : C18_Blocked(t)

(***************************************************************************)
(* C19: Rejected is terminal.  For a promise settled only by its own       *)
(* executor goroutine, once the state is REJECTED no step changes it again *)
(* (no Then reset, no resolve, no reject), and whenever the error channel  *)
(* holds an item the state is REJECTED; for any number and mix of          *)
(* consumers, although Then resets its parent to PENDING after reading a   *)
(* value.                                                                  *)
(***************************************************************************)
C19_ErrorImpliesRejected ==
    \A p \in Promises :
        (Settlers(p) = {} /\ rejectChannel[p] # << >>) => state[p] = REJECTED

C19_RejectedTerminal ==
    /\ []C19_ErrorImpliesRejected
    /\ [][\A p \in Nodes :
             (/\ prog[p].kind \notin {"await", "go"}
              /\ Settlers(p) = {}
              /\ state[p] = REJECTED) => state'[p] = REJECTED]_vars

\* resolve(1); reject(e2) with two consumers: a Then read the value and
\* reset the state, the reject went through, the error is still in its slot
C19_Witness ==
    \E p \in Promises :
        /\ Settlers(p) = {}
        /\ state[p] = REJECTED
        /\ rejectChannel[p] # << >>
        /\ Len(ValuesSent(p)) = 1
        /\ Cardinality(Consumers(p)) = 2
        /\ \E c \in Consumers(p) : prog[c].kind = "then" /\ pc[c] = "done"

(***************************************************************************)
(* C20: chain termination.  In a chain root.L1(...)...Lk(...).Await() of   *)
(* Then, Catch and Finally links where every promise has exactly one       *)
(* consumer, the root executor makes exactly one resolve or reject call    *)
(* with a plain value and every handler returns or panics, every fair run  *)
(* ends with the Await returned and every executor goroutine terminated:   *)
(* when no goroutine can move, none is left waiting at a send or in a      *)
(* select.                                                                 *)
(* Violated: a handler that panics with nil, recovered as nil, ends its    *)
(* goroutine without settling its promise (main.go:49, the defect of C9    *)
(* and C13), and everything downstream waits in its select for good.       *)
(***************************************************************************)
C20_IsChain ==
    /\ Len(prog) >= 2
    /\ IsResolveOf(1) \/ IsRejectOf(1)
    /\ \A n \in 2..Len(prog) :
          /\ prog[n].parent = n - 1
          /\ IF n = Len(prog) THEN prog[n].kind = "await"
             ELSE prog[n].kind \in {"then", "catch", "finally"}

C20_ChainTerminates ==
    (C20_IsChain /\ Quiescent) =>
        /\ \A n \in Nodes : pc[n] = "done"
        /\ Returned(Len(prog))

=============================================================================
